---- MODULE Spec2Model ----
(***************************************************************************)
(* A model of app.py, the Cloud Monitoring webhook that queries Cloud      *)
(* Logging around an incident and posts the findings on the latest pull    *)
(* request of the repository mapped to the failing service.                *)
(*                                                                         *)
(* Python strings are sequences of one-character strings, so that slicing, *)
(* lower-casing, splitting and length are computed as Python computes      *)
(* them.  An optional value (None or a value) is a sequence of length 0 or *)
(* 1.                                                                      *)
(***************************************************************************)
EXTENDS Integers, Sequences, FiniteSets, TLC

VARIABLES
    input,      \* the arguments of the function under study (pure-function specifications)
    output,     \* its result, NotRun before the call
    config,     \* the module-level configuration read from the environment
    request,    \* the inbound POST /alert request
    pc,         \* the position of the alert handler
    locals,     \* the local variables of the alert handler
    calls,      \* the outbound calls issued so far, in order
    response    \* the answer of the handler, NotRun until it returns

vars == <<input, output, config, request, pc, locals, calls, response>>

-----------------------------------------------------------------------------
(* Optional values and Python sequence operations *)

None == <<>>
Some(v) == <<v>>
IsNone(o) == o = <<>>
Get(o) == o[1]

NotRun == <<>>
Idle == <<"idle">>

Min(a, b) == IF a <= b THEN a ELSE b
Max(a, b) == IF a >= b THEN a ELSE b

\* s[:n]
PySliceTo(s, n) ==
    IF n >= 0 THEN SubSeq(s, 1, Min(n, Len(s)))
    ELSE SubSeq(s, 1, Max(Len(s) + n, 0))

\* s[n:]
PySliceFrom(s, n) ==
    IF n >= 0 THEN SubSeq(s, Min(n, Len(s)) + 1, Len(s))
    ELSE SubSeq(s, Max(Len(s) + n, 0) + 1, Len(s))

\* list(reversed(s))
Reversed(s) == [i \in 1..Len(s) |-> s[Len(s) + 1 - i]]

RECURSIVE Concat(_)
Concat(ss) ==
    IF ss = <<>> THEN <<>>
    ELSE IF Len(ss) = 1 THEN ss[1]
    ELSE LET half == Len(ss) \div 2
         IN  Concat(SubSeq(ss, 1, half)) \o Concat(SubSeq(ss, half + 1, Len(ss)))

\* sep.join(ss)
RECURSIVE Join(_, _)
Join(sep, ss) ==
    IF ss = <<>> THEN <<>>
    ELSE IF Len(ss) = 1 THEN ss[1]
    ELSE ss[1] \o sep \o Join(sep, Tail(ss))

EndsWith(s, suffix) ==
    /\ Len(s) >= Len(suffix)
    /\ SubSeq(s, Len(s) - Len(suffix) + 1, Len(s)) = suffix

StartsWith(s, prefix) ==
    /\ Len(s) >= Len(prefix)
    /\ SubSeq(s, 1, Len(prefix)) = prefix

Digits == <<"0", "1", "2", "3", "4", "5", "6", "7", "8", "9">>

\* str(n) for an integer
RECURSIVE NatToStr(_)
NatToStr(n) ==
    IF n < 10 THEN <<Digits[n + 1]>>
    ELSE NatToStr(n \div 10) \o <<Digits[(n % 10) + 1]>>

IntToStr(n) == IF n < 0 THEN <<"-">> \o NatToStr(0 - n) ELSE NatToStr(n)

\* f"{n:02d}"
Pad2(n) == IF n >= 0 /\ n < 10 THEN <<"0">> \o NatToStr(n) ELSE IntToStr(n)

\* Characters a string literal of this language cannot hold, each one
\* character, written by a name or by their code point
BACKTICK == "BACKTICK"
ELLIPSIS == "ELLIPSIS"
WARNING_SIGN == "U+26A0"
VARIATION_SELECTOR_16 == "U+FE0F"
E_ACUTE == "U+00E9"

\* The printable ASCII characters in code-point order, from 32
Ascii == <<" ", "!", "\"", "#", "$", "%", "&", "'", "(", ")", "*", "+", ",",
           "-", ".", "/", "0", "1", "2", "3", "4", "5", "6", "7", "8", "9",
           ":", ";", "<", "=", ">", "?", "@", "A", "B", "C", "D", "E", "F",
           "G", "H", "I", "J", "K", "L", "M", "N", "O", "P", "Q", "R", "S",
           "T", "U", "V", "W", "X", "Y", "Z", "[", "\\", "]", "^", "_", BACKTICK,
           "a", "b", "c", "d", "e", "f", "g", "h", "i", "j", "k", "l", "m",
           "n", "o", "p", "q", "r", "s", "t", "u", "v", "w", "x", "y", "z",
           "{", "|", "}", "~">>

\* ord(c) - 31 for a printable ASCII character
AsciiIndex(c) == CHOOSE i \in 1..Len(Ascii) : Ascii[i] = c

Range(s) == {s[i] : i \in 1..Len(s)}

\* The other characters of the model: every ASCII control character, every
\* character str.isspace() holds for, and some letters, digits, marks and
\* format characters outside ASCII. For each: ord(c), c.isprintable(), and
\* its value as a decimal digit (-1 when it is none). The characters of the
\* model are these and the printable ASCII ones; the operators below are
\* defined on them alone.
CODE_POINTS ==
    "U+0000" :> [cp |-> 0, printable |-> FALSE, digit |-> 0 - 1] @@
    "U+0001" :> [cp |-> 1, printable |-> FALSE, digit |-> 0 - 1] @@
    "U+0002" :> [cp |-> 2, printable |-> FALSE, digit |-> 0 - 1] @@
    "U+0003" :> [cp |-> 3, printable |-> FALSE, digit |-> 0 - 1] @@
    "U+0004" :> [cp |-> 4, printable |-> FALSE, digit |-> 0 - 1] @@
    "U+0005" :> [cp |-> 5, printable |-> FALSE, digit |-> 0 - 1] @@
    "U+0006" :> [cp |-> 6, printable |-> FALSE, digit |-> 0 - 1] @@
    "U+0007" :> [cp |-> 7, printable |-> FALSE, digit |-> 0 - 1] @@
    "U+0008" :> [cp |-> 8, printable |-> FALSE, digit |-> 0 - 1] @@
    "\t" :> [cp |-> 9, printable |-> FALSE, digit |-> 0 - 1] @@
    "\n" :> [cp |-> 10, printable |-> FALSE, digit |-> 0 - 1] @@
    "U+000B" :> [cp |-> 11, printable |-> FALSE, digit |-> 0 - 1] @@
    "\f" :> [cp |-> 12, printable |-> FALSE, digit |-> 0 - 1] @@
    "\r" :> [cp |-> 13, printable |-> FALSE, digit |-> 0 - 1] @@
    "U+000E" :> [cp |-> 14, printable |-> FALSE, digit |-> 0 - 1] @@
    "U+000F" :> [cp |-> 15, printable |-> FALSE, digit |-> 0 - 1] @@
    "U+0010" :> [cp |-> 16, printable |-> FALSE, digit |-> 0 - 1] @@
    "U+0011" :> [cp |-> 17, printable |-> FALSE, digit |-> 0 - 1] @@
    "U+0012" :> [cp |-> 18, printable |-> FALSE, digit |-> 0 - 1] @@
    "U+0013" :> [cp |-> 19, printable |-> FALSE, digit |-> 0 - 1] @@
    "U+0014" :> [cp |-> 20, printable |-> FALSE, digit |-> 0 - 1] @@
    "U+0015" :> [cp |-> 21, printable |-> FALSE, digit |-> 0 - 1] @@
    "U+0016" :> [cp |-> 22, printable |-> FALSE, digit |-> 0 - 1] @@
    "U+0017" :> [cp |-> 23, printable |-> FALSE, digit |-> 0 - 1] @@
    "U+0018" :> [cp |-> 24, printable |-> FALSE, digit |-> 0 - 1] @@
    "U+0019" :> [cp |-> 25, printable |-> FALSE, digit |-> 0 - 1] @@
    "U+001A" :> [cp |-> 26, printable |-> FALSE, digit |-> 0 - 1] @@
    "U+001B" :> [cp |-> 27, printable |-> FALSE, digit |-> 0 - 1] @@
    "U+001C" :> [cp |-> 28, printable |-> FALSE, digit |-> 0 - 1] @@
    "U+001D" :> [cp |-> 29, printable |-> FALSE, digit |-> 0 - 1] @@
    "U+001E" :> [cp |-> 30, printable |-> FALSE, digit |-> 0 - 1] @@
    "U+001F" :> [cp |-> 31, printable |-> FALSE, digit |-> 0 - 1] @@
    "U+007F" :> [cp |-> 127, printable |-> FALSE, digit |-> 0 - 1] @@
    "U+0080" :> [cp |-> 128, printable |-> FALSE, digit |-> 0 - 1] @@
    "U+0085" :> [cp |-> 133, printable |-> FALSE, digit |-> 0 - 1] @@
    "U+009F" :> [cp |-> 159, printable |-> FALSE, digit |-> 0 - 1] @@
    "U+00A0" :> [cp |-> 160, printable |-> FALSE, digit |-> 0 - 1] @@
    "U+00AD" :> [cp |-> 173, printable |-> FALSE, digit |-> 0 - 1] @@
    E_ACUTE :> [cp |-> 233, printable |-> TRUE, digit |-> 0 - 1] @@
    "U+00F1" :> [cp |-> 241, printable |-> TRUE, digit |-> 0 - 1] @@
    "U+00FC" :> [cp |-> 252, printable |-> TRUE, digit |-> 0 - 1] @@
    "U+0661" :> [cp |-> 1633, printable |-> TRUE, digit |-> 1] @@
    "U+0662" :> [cp |-> 1634, printable |-> TRUE, digit |-> 2] @@
    "U+0663" :> [cp |-> 1635, printable |-> TRUE, digit |-> 3] @@
    "U+0969" :> [cp |-> 2409, printable |-> TRUE, digit |-> 3] @@
    "U+1680" :> [cp |-> 5760, printable |-> FALSE, digit |-> 0 - 1] @@
    "U+2000" :> [cp |-> 8192, printable |-> FALSE, digit |-> 0 - 1] @@
    "U+2001" :> [cp |-> 8193, printable |-> FALSE, digit |-> 0 - 1] @@
    "U+2002" :> [cp |-> 8194, printable |-> FALSE, digit |-> 0 - 1] @@
    "U+2003" :> [cp |-> 8195, printable |-> FALSE, digit |-> 0 - 1] @@
    "U+2004" :> [cp |-> 8196, printable |-> FALSE, digit |-> 0 - 1] @@
    "U+2005" :> [cp |-> 8197, printable |-> FALSE, digit |-> 0 - 1] @@
    "U+2006" :> [cp |-> 8198, printable |-> FALSE, digit |-> 0 - 1] @@
    "U+2007" :> [cp |-> 8199, printable |-> FALSE, digit |-> 0 - 1] @@
    "U+2008" :> [cp |-> 8200, printable |-> FALSE, digit |-> 0 - 1] @@
    "U+2009" :> [cp |-> 8201, printable |-> FALSE, digit |-> 0 - 1] @@
    "U+200A" :> [cp |-> 8202, printable |-> FALSE, digit |-> 0 - 1] @@
    "U+200B" :> [cp |-> 8203, printable |-> FALSE, digit |-> 0 - 1] @@
    ELLIPSIS :> [cp |-> 8230, printable |-> TRUE, digit |-> 0 - 1] @@
    "U+2028" :> [cp |-> 8232, printable |-> FALSE, digit |-> 0 - 1] @@
    "U+2029" :> [cp |-> 8233, printable |-> FALSE, digit |-> 0 - 1] @@
    "U+202F" :> [cp |-> 8239, printable |-> FALSE, digit |-> 0 - 1] @@
    "U+205F" :> [cp |-> 8287, printable |-> FALSE, digit |-> 0 - 1] @@
    "U+2060" :> [cp |-> 8288, printable |-> FALSE, digit |-> 0 - 1] @@
    WARNING_SIGN :> [cp |-> 9888, printable |-> TRUE, digit |-> 0 - 1] @@
    "U+3000" :> [cp |-> 12288, printable |-> FALSE, digit |-> 0 - 1] @@
    "U+4E2D" :> [cp |-> 20013, printable |-> TRUE, digit |-> 0 - 1] @@
    VARIATION_SELECTOR_16 :> [cp |-> 65039, printable |-> TRUE, digit |-> 0 - 1] @@
    "U+FEFF" :> [cp |-> 65279, printable |-> FALSE, digit |-> 0 - 1] @@
    "U+FF15" :> [cp |-> 65301, printable |-> TRUE, digit |-> 5] @@
    "U+1F600" :> [cp |-> 128512, printable |-> TRUE, digit |-> 0 - 1]

\* ord(c)
CodePoint(c) == IF c \in Range(Ascii) THEN AsciiIndex(c) + 31 ELSE CODE_POINTS[c].cp

\* c.isprintable()
IsPrintable(c) == IF c \in Range(Ascii) THEN TRUE ELSE CODE_POINTS[c].printable

\* The value of c as a decimal digit, -1 when it is none
DecimalValue(c) ==
    IF c \in Range(Digits) THEN CHOOSE d \in 0..9 : Digits[d + 1] = c
    ELSE IF c \in Range(Ascii) THEN 0 - 1
    ELSE CODE_POINTS[c].digit

\* The characters str.isspace() holds for: str.split() separates on them and
\* str.strip() removes them
Whitespace ==
    {" ", "\t", "\n", "U+000B", "\f", "\r", "U+001C", "U+001D",
     "U+001E", "U+001F", "U+0085", "U+00A0", "U+1680", "U+2000",
     "U+2001", "U+2002", "U+2003", "U+2004", "U+2005", "U+2006",
     "U+2007", "U+2008", "U+2009", "U+200A", "U+2028", "U+2029",
     "U+202F", "U+205F", "U+3000"}

\* s.isascii()
IsAscii(s) == \A i \in 1..Len(s) : CodePoint(s[i]) < 128

HexDigits == <<"0", "1", "2", "3", "4", "5", "6", "7", "8", "9", "a", "b", "c", "d", "e", "f">>

\* "%0<width>x" % n
RECURSIVE Hex(_, _)
Hex(n, width) ==
    IF width = 0 THEN <<>> ELSE Hex(n \div 16, width - 1) \o <<HexDigits[(n % 16) + 1]>>

\* s.strip()
Strip(s) ==
    LET solid == {i \in 1..Len(s) : s[i] \notin Whitespace}
    IN  IF solid = {} THEN <<>>
        ELSE SubSeq(s, CHOOSE i \in solid : \A j \in solid : i <= j,
                       CHOOSE i \in solid : \A j \in solid : j <= i)

\* c.lower(): "A".."Z" are at 34..59, "a".."z" at 66..91; no other character
\* of the model has a lower-case form of its own
LowerChar(c) ==
    IF c \notin Range(Ascii) THEN c
    ELSE LET i == AsciiIndex(c)
         IN  IF i >= 34 /\ i <= 59 THEN Ascii[i + 32] ELSE c

\* s.lower()
Lower(s) == [i \in 1..Len(s) |-> LowerChar(s[i])]

\* a < b, as Python orders two strings: by code point
RECURSIVE StrLess(_, _)
StrLess(a, b) ==
    IF b = <<>> THEN FALSE
    ELSE IF a = <<>> THEN TRUE
    ELSE IF a[1] = b[1] THEN StrLess(Tail(a), Tail(b))
    ELSE CodePoint(a[1]) < CodePoint(b[1])

\* sorted(S) for a set of strings
RECURSIVE SortedSeq(_)
SortedSeq(S) ==
    IF S = {} THEN <<>>
    ELSE LET m == CHOOSE x \in S : \A y \in S \ {x} : StrLess(x, y)
         IN  <<m>> \o SortedSeq(S \ {m})

-----------------------------------------------------------------------------
(* filter_requests_weird: the status predicate of the request-anomaly      *)
(* filter, as the Logging query language evaluates it on a status code.    *)

MaxStatus == 600

REDIRECTS_ALLOWED == {301, 302, 303, 304, 307, 308}

StatusClause(s) ==
    /\ \/ s < 200
       \/ (s > 206 /\ s < 300)
       \/ (s >= 300 /\ s \notin REDIRECTS_ALLOWED)
       \/ s >= 400
    /\ s # 404

svc_clause_for(names) ==
    LET kept == SelectSeq(names, LAMBDA s : s # <<>> /\ Strip(s) # <<>>)
    IN  [i \in 1..Len(kept) |-> Strip(kept[i])]

\* A filter: its kind, its region clause, its service clause and its streams
Filter(kind, regions, services, streams) ==
    [kind |-> kind, regions |-> regions, services |-> svc_clause_for(services),
     streams |-> streams]

filter_requests_weird(region, services) ==
    Filter("requests", IF region # <<>> THEN <<region>> ELSE <<>>, services, <<>>)

\* Whether a request log entry with this status matches the filter
MatchesRequestsWeird(f, s) == f.kind = "requests" /\ StatusClause(s)

IdleHandler ==
    /\ config = Idle
    /\ request = Idle
    /\ pc = "idle"
    /\ locals = Idle
    /\ calls = <<>>
    /\ response = NotRun

HandlerUnchanged == UNCHANGED <<config, request, pc, locals, calls, response>>

InitFilter ==
    /\ \E s \in 0..MaxStatus : input = [fn |-> "filter_requests_weird", status |-> s]
    /\ output = NotRun
    /\ IdleHandler

EvalStatusPredicate ==
    /\ input.fn = "filter_requests_weird"
    /\ output = NotRun
    /\ output' = Some(MatchesRequestsWeird(filter_requests_weird(<<>>, <<>>), input.status))
    /\ UNCHANGED input
    /\ HandlerUnchanged

NextFilter == EvalStatusPredicate

SpecFilter == InitFilter /\ [][NextFilter]_vars

NORMAL_STATUSES == {200, 201, 202, 204, 206, 301, 302, 303, 304, 307, 308}

\* C5: the status predicate is false on every status of the success/redirect
\* set {200,201,202,204,206,301,302,303,304,307,308}, false on 404, and true
\* on every other integer status (203, 205, 300, 305, 400, 500, 100, ...).
C5_StatusPredicate ==
    (input.fn = "filter_requests_weird" /\ output # NotRun) =>
        Get(output) = (input.status \notin NORMAL_STATUSES /\ input.status # 404)

-----------------------------------------------------------------------------
(* format_lines: the renderer of a list of canonical log records           *)

FENCE_OPEN == <<BACKTICK, BACKTICK, BACKTICK, "\n">>
FENCE_CLOSE == <<"\n", BACKTICK, BACKTICK, BACKTICK>>
TRUNCATION_MARKER ==
    <<"\n", ELLIPSIS, "(", "t", "r", "u", "n", "c", "a", "t", "e", "d", ")", ELLIPSIS>>
NO_LOGS ==
    <<"_", "N", "o", " ", "l", "o", "g", "s", " ", "i", "n", " ", "w", "i", "n",
      "d", "o", "w", ".", "_">>
DASH == <<"-">>
NONE_STR == <<"N", "o", "n", "e">>

\* f"{v}" of an optional string: None prints as "None"
FmtOpt(o) == IF IsNone(o) THEN NONE_STR ELSE Get(o)

\* (v or "-") of an optional string
OrDash(o) == IF IsNone(o) \/ Get(o) = <<>> THEN DASH ELSE Get(o)

\* (v or "-") of an optional integer
OrDashInt(o) == IF IsNone(o) \/ Get(o) = 0 THEN DASH ELSE IntToStr(Get(o))

\* One record of the blob; i is the record's index from 0
render_entry(i, e) ==
    Pad2(i + 1) \o <<" ">> \o e.ts \o <<" ">> \o FmtOpt(e.sev)
    \o <<" ", "s", "v", "c", "=">> \o OrDash(e.svc)
    \o <<" ", "s", "t", "a", "t", "u", "s", "=">> \o OrDashInt(e.status)
    \o <<" ", "m", "e", "t", "h", "o", "d", "=">> \o OrDash(e.method)
    \o <<" ", "u", "r", "l", "=">> \o OrDash(e.url)
    \o <<"\n">> \o e.text

\* The records rendered: the max_lines cut, in native or chronological order
select_entries(lines, max_lines, chronological) ==
    IF chronological THEN PySliceFrom(Reversed(lines), 0 - max_lines)
    ELSE PySliceTo(lines, max_lines)

render_blob(entries) ==
    Join(<<"\n", "\n">>, [i \in 1..Len(entries) |-> render_entry(i - 1, entries[i])])

\* A faulty variant of truncate_blob: it keeps one character less
truncate_blob_one_short(blob, max_chars) ==
    IF Len(blob) > max_chars THEN PySliceTo(blob, max_chars - 1) \o TRUNCATION_MARKER
    ELSE blob

truncate_blob(blob, max_chars) ==
    IF Len(blob) > max_chars THEN PySliceTo(blob, max_chars) \o TRUNCATION_MARKER
    ELSE blob

format_lines(lines, max_lines, max_chars, chronological) ==
    LET entries == select_entries(lines, max_lines, chronological)
        blob    == truncate_blob(render_blob(entries), max_chars)
    IN  IF blob # <<>> THEN FENCE_OPEN \o blob \o FENCE_CLOSE ELSE NO_LOGS

\* Sample canonical records, as fetch_logs builds them
RecFull ==
    [ts |-> <<"T", "1">>, sev |-> Some(<<"E", "R", "R", "O", "R">>),
     svc |-> Some(<<"a", "p", "i">>), trace |-> Some(<<"t", "r">>),
     status |-> Some(500), method |-> Some(<<"G", "E", "T">>),
     url |-> Some(<<"/", "x">>), text |-> <<"b", "o", "o", "m">>]
RecBare ==
    [ts |-> <<>>, sev |-> None, svc |-> None, trace |-> None, status |-> None,
     method |-> None, url |-> None, text |-> <<>>]
RecWeb ==
    [ts |-> <<"T", "2">>, sev |-> None, svc |-> Some(<<"w", "e", "b">>),
     trace |-> None, status |-> Some(0), method |-> Some(<<>>),
     url |-> None, text |-> <<"o", "k">>]

SampleRecords == {RecFull, RecBare, RecWeb}

MaxRecords == 2
MaxChars == 90
NegCaps == 1

RecordLists == UNION {[1..n -> SampleRecords] : n \in 0..MaxRecords}

InitFormat ==
    /\ \E ls \in RecordLists, ml \in (0 - NegCaps)..(MaxRecords + 1),
          mc \in (0 - NegCaps)..MaxChars, ch \in BOOLEAN :
          input = [fn |-> "format_lines", lines |-> ls, max_lines |-> ml,
                   max_chars |-> mc, chronological |-> ch]
    /\ output = NotRun
    /\ IdleHandler

CallFormatLines ==
    /\ input.fn = "format_lines"
    /\ output = NotRun
    /\ output' = Some(format_lines(input.lines, input.max_lines, input.max_chars,
                                   input.chronological))
    /\ UNCHANGED input
    /\ HandlerUnchanged

NextFormat == CallFormatLines

SpecFormat == InitFormat /\ [][NextFormat]_vars

FormatRan == input.fn = "format_lines" /\ output # NotRun

\* The concatenated rendering of the records format_lines selects
InputBlob == render_blob(select_entries(input.lines, input.max_lines, input.chronological))

\* C7 as stated: a rendering longer than max_chars is returned with length
\* exactly max_chars plus the length of the truncation marker and ends with
\* the marker; a rendering not longer than max_chars gets no marker.
C7_Original ==
    (FormatRan /\ input.max_chars >= 0) =>
        IF Len(InputBlob) > input.max_chars
        THEN /\ Len(Get(output)) = input.max_chars + Len(TRUNCATION_MARKER)
             /\ EndsWith(Get(output), TRUNCATION_MARKER)
        ELSE Get(output) \in {NO_LOGS, FENCE_OPEN \o InputBlob \o FENCE_CLOSE}

\* C7, amended: for max_chars >= 0, a rendering longer than max_chars is
\* returned as the opening fence, its first max_chars characters, the
\* truncation marker and the closing fence: the fenced text has length
\* max_chars plus the marker's length and ends with the marker, and the
\* returned text is 8 characters longer; a rendering not longer than
\* max_chars is returned whole, fenced, with no marker (the placeholder when
\* it is empty).
C7_TruncationInsideFence ==
    (FormatRan /\ input.max_chars >= 0) =>
        IF Len(InputBlob) > input.max_chars
        THEN LET out    == Get(output)
                 inside == SubSeq(out, Len(FENCE_OPEN) + 1, Len(out) - Len(FENCE_CLOSE))
             IN  /\ StartsWith(out, FENCE_OPEN)
                 /\ EndsWith(out, FENCE_CLOSE)
                 /\ Len(inside) = input.max_chars + Len(TRUNCATION_MARKER)
                 /\ EndsWith(inside, TRUNCATION_MARKER)
                 /\ SubSeq(inside, 1, input.max_chars) = SubSeq(InputBlob, 1, input.max_chars)
                 /\ Len(out) = input.max_chars + Len(TRUNCATION_MARKER)
                               + Len(FENCE_OPEN) + Len(FENCE_CLOSE)
        ELSE Get(output) = IF InputBlob = <<>> THEN NO_LOGS
                           ELSE FENCE_OPEN \o InputBlob \o FENCE_CLOSE

\* A two-record rendering cut in the middle of its second record
C7_Witness ==
    /\ FormatRan
    /\ Len(select_entries(input.lines, input.max_lines, input.chronological)) = 2
    /\ input.max_chars > Len(render_entry(0, input.lines[1])) + 2
    /\ Len(InputBlob) > input.max_chars
    /\ EndsWith(Get(output), TRUNCATION_MARKER \o FENCE_CLOSE)

\* The records the cap allows: the first max_lines of the input, listed oldest
\* first when chronological order is asked for
CappedRecords ==
    IF input.chronological THEN Reversed(PySliceTo(input.lines, input.max_lines))
    ELSE PySliceTo(input.lines, input.max_lines)

\* The text of a block that renders exactly these records
BlockOf(entries) ==
    LET blob == truncate_blob(render_blob(entries), input.max_chars)
    IN  IF blob # <<>> THEN FENCE_OPEN \o blob \o FENCE_CLOSE ELSE NO_LOGS

\* C11: for every record list, every max_lines >= 0 and both orders,
\* format_lines renders at most max_lines records: in native order the first
\* max_lines records of the input, in chronological order the max_lines most
\* recent records (the first max_lines of the reverse-chronological input)
\* listed oldest first; a cap of 0, which the handler passes as
\* min(40, MAX_LINES // 2) when MAX_LINES is 0 or 1, is included.
C11_AtMostMaxLines ==
    (FormatRan /\ input.max_lines >= 0) =>
        /\ Len(select_entries(input.lines, input.max_lines, input.chronological))
              <= input.max_lines
        /\ Get(output) = BlockOf(CappedRecords)

-----------------------------------------------------------------------------
(* _payload_to_str: the normalizer of a raw log entry's payload            *)

PAYLOAD_CAP == 2000

\* Python values a payload can hold, tagged by their type
JStr(s) == [t |-> "str", s |-> s]
JInt(n) == [t |-> "int", n |-> n]
JNull == [t |-> "null"]
JDict(items) == [t |-> "dict", items |-> items]     \* items: <<key, value>> pairs in order
JObj(repr) == [t |-> "obj", repr |-> repr]          \* an object json cannot serialize

QUOTE == <<"\"">>

\* bool(v)
Truthy(v) ==
    CASE v.t = "str" -> v.s # <<>>
      [] v.t = "int" -> v.n # 0
      [] v.t = "null" -> FALSE
      [] v.t = "dict" -> v.items # <<>>
      [] OTHER -> TRUE

\* Whether json.dumps(v) returns (it raises TypeError on an object)
RECURSIVE Serializable(_)
Serializable(v) ==
    CASE v.t = "obj" -> FALSE
      [] v.t = "dict" -> \A i \in 1..Len(v.items) : Serializable(v.items[i][2])
      [] OTHER -> TRUE

\* One character of a string as json.dumps writes it (ensure_ascii is on):
\* the short escapes, \uXXXX for every other character outside " ".."~", as a
\* surrogate pair above U+FFFF
json_escape(c, cp) ==
        CASE c = "\"" -> <<"\\", "\"">>
          [] c = "\\" -> <<"\\", "\\">>
          [] c = "\n" -> <<"\\", "n">>
          [] c = "\r" -> <<"\\", "r">>
          [] c = "\t" -> <<"\\", "t">>
          [] c = "\f" -> <<"\\", "f">>
          [] cp = 8 -> <<"\\", "b">>
          [] cp > 65535 ->
                <<"\\", "u">> \o Hex(55296 + ((cp - 65536) \div 1024), 4)
                \o <<"\\", "u">> \o Hex(56320 + ((cp - 65536) % 1024), 4)
          [] (cp < 32 \/ cp > 126) /\ cp <= 65535 /\ cp \notin {8, 9, 10, 12, 13} ->
                <<"\\", "u">> \o Hex(cp, 4)
          [] OTHER -> <<c>>

json_char(c) == json_escape(c, CodePoint(c))

\* json.dumps(s) of a string
json_string(s) == QUOTE \o Concat([i \in 1..Len(s) |-> json_char(s[i])]) \o QUOTE

\* json.dumps(v) of a serializable value
RECURSIVE json_dumps(_)
json_dumps(v) ==
    CASE v.t = "str" -> json_string(v.s)
      [] v.t = "int" -> IntToStr(v.n)
      [] v.t = "null" -> <<"n", "u", "l", "l">>
      [] v.t = "dict" ->
            <<"{">>
            \o Join(<<",", " ">>,
                    [i \in 1..Len(v.items) |->
                        json_string(v.items[i][1]) \o <<":", " ">>
                        \o json_dumps(v.items[i][2])])
            \o <<"}">>
      [] OTHER -> <<>>

\* One character of a string as repr writes it between the quotes q: a
\* character that is not printable is written \xNN, \uNNNN or \UNNNNNNNN
repr_escape(c, q, cp, printable) ==
        CASE c = "\\" -> <<"\\", "\\">>
          [] c = q -> <<"\\", q>>
          [] c = "\n" -> <<"\\", "n">>
          [] c = "\r" -> <<"\\", "r">>
          [] c = "\t" -> <<"\\", "t">>
          [] ~printable /\ c \notin {"\n", "\r", "\t"} ->
                IF cp < 256 THEN <<"\\", "x">> \o Hex(cp, 2)
                ELSE IF cp < 65536 THEN <<"\\", "u">> \o Hex(cp, 4)
                ELSE <<"\\", "U">> \o Hex(cp, 8)
          [] OTHER -> <<c>>

repr_char(c, q) == repr_escape(c, q, CodePoint(c), IsPrintable(c))

\* repr(s) of a string: in double quotes when s holds a single quote and no
\* double quote, in single quotes otherwise
repr_string(s) ==
    LET q == IF "'" \in Range(s) /\ "\"" \notin Range(s) THEN "\"" ELSE "'"
    IN  <<q>> \o Concat([i \in 1..Len(s) |-> repr_char(s[i], q)]) \o <<q>>

\* repr(v)
RECURSIVE py_repr(_)
py_repr(v) ==
    CASE v.t = "str" -> repr_string(v.s)
      [] v.t = "int" -> IntToStr(v.n)
      [] v.t = "null" -> NONE_STR
      [] v.t = "dict" ->
            <<"{">>
            \o Join(<<",", " ">>,
                    [i \in 1..Len(v.items) |->
                        repr_string(v.items[i][1]) \o <<":", " ">>
                        \o py_repr(v.items[i][2])])
            \o <<"}">>
      [] OTHER -> v.repr

\* str(v)
py_str(v) == IF v.t = "str" THEN v.s ELSE py_repr(v)

\* d.get(key): the value of the last item with that key, None when absent
DictGet(d, key) ==
    LET hits == {i \in 1..Len(d.items) : d.items[i][1] = key}
    IN  IF hits = {} THEN JNull
        ELSE d.items[CHOOSE i \in hits : \A j \in hits : j <= i][2]

Returned(text) == [raised |-> FALSE, text |-> text]
Raised == [raised |-> TRUE, text |-> <<>>]

\* try: json.dumps(v)[:2000]  except Exception: str(v)[:2000]
dumps_or_str(v) ==
    IF Serializable(v) THEN PySliceTo(json_dumps(v), PAYLOAD_CAP)
    ELSE PySliceTo(py_str(v), PAYLOAD_CAP)

\* The mapping branch: the first key present among textPayload, jsonPayload,
\* protoPayload, payload decides
payload_of_mapping(e) ==
    IF ~IsNone(e.textPayload) THEN Returned(PySliceTo(py_str(Get(e.textPayload)), PAYLOAD_CAP))
    ELSE IF ~IsNone(e.jsonPayload) THEN Returned(dumps_or_str(Get(e.jsonPayload)))
    ELSE IF ~IsNone(e.protoPayload) THEN Returned(dumps_or_str(Get(e.protoPayload)))
    ELSE IF ~IsNone(e.payload) THEN
        IF Get(e.payload).t = "str" THEN Returned(PySliceTo(Get(e.payload).s, PAYLOAD_CAP))
        ELSE Returned(dumps_or_str(Get(e.payload)))
    ELSE Returned(<<>>)

\* (payload.get("message") or payload.get("msg") or json.dumps(payload))[:2000]:
\* slicing a value that is not a string raises TypeError, and so does
\* json.dumps of a payload it cannot serialize
payload_of_struct(p) ==
    LET message == DictGet(p, <<"m", "e", "s", "s", "a", "g", "e">>)
        msg     == DictGet(p, <<"m", "s", "g">>)
    IN  IF Truthy(message) THEN
            IF message.t = "str" THEN Returned(PySliceTo(message.s, PAYLOAD_CAP)) ELSE Raised
        ELSE IF Truthy(msg) THEN
            IF msg.t = "str" THEN Returned(PySliceTo(msg.s, PAYLOAD_CAP)) ELSE Raised
        ELSE IF Serializable(p) THEN Returned(PySliceTo(json_dumps(p), PAYLOAD_CAP))
        ELSE Raised

\* The object branch: the entry's payload attribute decides
payload_of_object(e) ==
    LET payload == e.payload
    IN  IF payload.t = "str" THEN Returned(PySliceTo(payload.s, PAYLOAD_CAP))
        ELSE IF payload.t = "dict" THEN payload_of_struct(payload)
        ELSE IF payload.t # "null" THEN Returned(PySliceTo(py_str(payload), PAYLOAD_CAP))
        ELSE Returned(<<>>)

_payload_to_str(entry) ==
    IF entry.shape = "mapping" THEN payload_of_mapping(entry) ELSE payload_of_object(entry)

\* Sample payload values
MESSAGE_KEY == <<"m", "e", "s", "s", "a", "g", "e">>
MSG_KEY == <<"m", "s", "g">>
LongText == [i \in 1..(PAYLOAD_CAP + 1) |-> "a"]
StructMessageX == JDict(<< <<MESSAGE_KEY, JStr(<<"x">>)>> >>)
StructMsgY == JDict(<< <<<<"k">>, JInt(1)>>, <<MSG_KEY, JStr(<<"y">>)>> >>)
StructEmptyMessage == JDict(<< <<MESSAGE_KEY, JStr(<<>>)>>, <<MSG_KEY, JStr(<<"y">>)>> >>)
StructNoMessage == JDict(<< <<<<"k">>, JStr(<<"v">>)>>, <<<<"n">>, JNull>> >>)
StructIntMessage == JDict(<< <<MESSAGE_KEY, JInt(5)>> >>)
StructLongMessage == JDict(<< <<MESSAGE_KEY, JStr(LongText)>> >>)
StructWithObject == JDict(<< <<<<"k">>, JObj(<<"<", "o", ">">>)>> >>)
ProtoObject == JObj(<<"t", "y", "p", "e", ":", " ", "a">>)
\* {"s": "it's", "b": "back\slash", "o": <o>} and {"q": "say \"hi\"\n"}
StructQuotedWithObject ==
    JDict(<< <<<<"s">>, JStr(<<"i", "t", "'", "s">>)>>,
             <<<<"b">>, JStr(<<"b", "a", "c", "k", "\\", "s", "l", "a", "s", "h">>)>>,
             <<<<"c">>, JStr(<<"U+0000", "U+007F", "U+200B", "U+00FC", "U+1F600">>)>>,
             <<<<"o">>, JObj(<<"<", "o", ">">>)>> >>)
StructEscaped ==
    JDict(<< <<<<"q">>, JStr(<<"s", "a", "y", " ", "\"", "h", "i", "\"", "\n">>)>>,
             <<<<"c">>, JStr(<<"U+0000", "U+0008", "U+007F", "U+00FC", "U+4E2D", "U+1F600">>)>> >>)

StructSamples ==
    {StructMessageX, StructMsgY, StructEmptyMessage, StructNoMessage, StructIntMessage,
     StructLongMessage, StructWithObject, StructQuotedWithObject, StructEscaped, JDict(<<>>)}
TextSamples == {JStr(<<"h", "i">>), JStr(<<>>), JStr(LongText)}

MappingEntries ==
    {[shape |-> "mapping", textPayload |-> tp, jsonPayload |-> jp, protoPayload |-> pp,
      payload |-> pl] :
        tp \in {None} \cup {Some(v) : v \in TextSamples \cup {JNull}},
        jp \in {None} \cup {Some(v) : v \in StructSamples},
        pp \in {None, Some(StructNoMessage), Some(ProtoObject)},
        pl \in {None, Some(JStr(<<"p">>)), Some(StructMessageX)}}

ObjectEntries ==
    {[shape |-> "object", payload |-> v] :
        v \in TextSamples \cup StructSamples \cup {JNull, ProtoObject, JInt(7)}}

InitPayload ==
    /\ \E e \in MappingEntries \cup ObjectEntries :
          input = [fn |-> "_payload_to_str", entry |-> e]
    /\ output = NotRun
    /\ IdleHandler

CallPayloadToStr ==
    /\ input.fn = "_payload_to_str"
    /\ output = NotRun
    /\ output' = Some(_payload_to_str(input.entry))
    /\ UNCHANGED input
    /\ HandlerUnchanged

NextPayload == CallPayloadToStr

SpecPayload == InitPayload /\ [][NextPayload]_vars

PayloadRan == input.fn = "_payload_to_str" /\ output # NotRun

\* The text payload and the structured payload of an entry of either shape
\* (None when the entry has none)
TextPayloadOf(e) ==
    IF e.shape = "mapping" THEN
        IF ~IsNone(e.textPayload) /\ Get(e.textPayload).t = "str" THEN e.textPayload ELSE None
    ELSE IF e.payload.t = "str" THEN Some(e.payload) ELSE None

StructPayloadOf(e) ==
    IF e.shape = "mapping" THEN
        IF IsNone(e.textPayload) /\ ~IsNone(e.jsonPayload) THEN e.jsonPayload ELSE None
    ELSE IF e.payload.t = "dict" THEN Some(e.payload) ELSE None

HasNoPayload(e) ==
    IF e.shape = "mapping"
    THEN IsNone(e.textPayload) /\ IsNone(e.jsonPayload) /\ IsNone(e.protoPayload)
         /\ IsNone(e.payload)
    ELSE e.payload.t = "null"

\* C8: for an entry of either shape the text is the text payload, else the
\* structured payload's message/msg field, else the structured payload
\* serialized, else the proto payload serialized, else "": an entry with only
\* the structured payload {"message": "x"} yields "x", an entry with no payload
\* yields "", normalization never raises and the text is at most 2000 long.
C8_PayloadPrecedence ==
    PayloadRan =>
        LET e   == input.entry
            out == Get(output)
            tp  == TextPayloadOf(e)
            sp  == StructPayloadOf(e)
        IN  /\ ~out.raised
            /\ Len(out.text) <= PAYLOAD_CAP
            /\ ~IsNone(tp) => out.text = PySliceTo(Get(tp).s, PAYLOAD_CAP)
            /\ (IsNone(tp) /\ ~IsNone(sp)) =>
                  LET message == DictGet(Get(sp), MESSAGE_KEY)
                      msg     == DictGet(Get(sp), MSG_KEY)
                  IN  /\ (message.t = "str" /\ message.s # <<>>) =>
                            out.text = PySliceTo(message.s, PAYLOAD_CAP)
                      /\ (message.t = "null" /\ msg.t = "str" /\ msg.s # <<>>) =>
                            out.text = PySliceTo(msg.s, PAYLOAD_CAP)
            /\ HasNoPayload(e) => out.text = <<>>

-----------------------------------------------------------------------------
(* try_fetch_logs and _summarize_log_exception                             *)

SUMMARY_MAX_LEN == 500

PERMISSION_HINT ==
    <<" ", "(", "c", "h", "e", "c", "k", " ", "t", "h", "a", "t", " ", "t", "h", "e", " ",
      "C", "l", "o", "u", "d", " ", "R", "u", "n", " ", "r", "u", "n", "t", "i", "m", "e",
      " ", "s", "e", "r", "v", "i", "c", "e", " ", "a", "c", "c", "o", "u", "n", "t", " ",
      "h", "a", "s", " ", "L", "o", "g", "g", "i", "n", "g", " ", "V", "i", "e", "w", "e",
      "r", " ", "a", "c", "c", "e", "s", "s", ")">>
CREDENTIALS_HINT ==
    <<" ", "(", "a", "p", "p", "l", "i", "c", "a", "t", "i", "o", "n", " ", "d", "e", "f",
      "a", "u", "l", "t", " ", "c", "r", "e", "d", "e", "n", "t", "i", "a", "l", "s", " ",
      "w", "e", "r", "e", " ", "n", "o", "t", " ", "f", "o", "u", "n", "d", ")">>

\* " ".join(s.split()): the words of s, the maximal runs of characters that are
\* not whitespace, with one space between consecutive words. Character by
\* character: a character of a word is kept, and the first whitespace character
\* after a word is kept as a space when another word follows it.
NormalizeSpaces(s) ==
    LET inWord(i) == s[i] \notin Whitespace
        wordChars == {i \in 1..Len(s) : inWord(i)}
        last      == IF wordChars = {} THEN 0
                     ELSE CHOOSE i \in wordChars : \A j \in wordChars : j <= i
        kept(i)   == inWord(i) \/ (i > 1 /\ inWord(i - 1) /\ i < last)
        idx       == SelectSeq([i \in 1..Len(s) |-> i], kept)
    IN  [k \in 1..Len(idx) |-> IF inWord(idx[k]) THEN s[idx[k]] ELSE " "]

\* An exception: its class, given by the class's name, its message attribute
\* (None when the class has none) and str(exc)
Exc(cls, attr, text) == [cls |-> cls, message |-> attr, str |-> text]

\* Exception classes, each the characters of its name
GOOGLE_API_CALL_ERROR == <<"G", "o", "o", "g", "l", "e", "A", "P", "I", "C", "a", "l", "l", "E", "r", "r", "o", "r">>
PERMISSION_DENIED == <<"P", "e", "r", "m", "i", "s", "s", "i", "o", "n", "D", "e", "n", "i", "e", "d">>
NOT_FOUND == <<"N", "o", "t", "F", "o", "u", "n", "d">>
GOOGLE_AUTH_ERROR == <<"G", "o", "o", "g", "l", "e", "A", "u", "t", "h", "E", "r", "r", "o", "r">>
DEFAULT_CREDENTIALS_ERROR == <<"D", "e", "f", "a", "u", "l", "t", "C", "r", "e", "d", "e", "n", "t", "i", "a", "l", "s", "E", "r", "r", "o", "r">>
RETRY_ERROR == <<"R", "e", "t", "r", "y", "E", "r", "r", "o", "r">>
OS_ERROR == <<"O", "S", "E", "r", "r", "o", "r">>
FILE_NOT_FOUND_ERROR == <<"F", "i", "l", "e", "N", "o", "t", "F", "o", "u", "n", "d", "E", "r", "r", "o", "r">>
VALUE_ERROR == <<"V", "a", "l", "u", "e", "E", "r", "r", "o", "r">>
KEY_ERROR == <<"K", "e", "y", "E", "r", "r", "o", "r">>
TYPE_ERROR == <<"T", "y", "p", "e", "E", "r", "r", "o", "r">>

\* The classes the first except clause of try_fetch_logs names, with subclasses
\* of theirs; every other class is caught by the second clause
API_ERRORS == {GOOGLE_API_CALL_ERROR, PERMISSION_DENIED, NOT_FOUND}
AUTH_ERRORS == {GOOGLE_AUTH_ERROR, DEFAULT_CREDENTIALS_ERROR}
EXPECTED_ERRORS ==
    API_ERRORS \cup AUTH_ERRORS \cup {RETRY_ERROR, OS_ERROR, FILE_NOT_FOUND_ERROR, VALUE_ERROR}

\* exc.__class__.__name__
ClassName(cls) == cls

_summarize_log_exception(exc, max_len) ==
    LET raw      == IF ~IsNone(exc.message) /\ Get(exc.message) # <<>> THEN Get(exc.message)
                    ELSE IF exc.str # <<>> THEN exc.str
                    ELSE ClassName(exc.cls)
        spaced   == NormalizeSpaces(raw)
        hinted   == IF exc.cls = PERMISSION_DENIED THEN spaced \o PERMISSION_HINT
                    ELSE IF exc.cls = DEFAULT_CREDENTIALS_ERROR THEN spaced \o CREDENTIALS_HINT
                    ELSE spaced
    IN  IF Len(hinted) > max_len THEN PySliceTo(hinted, max_len - 1) \o <<ELLIPSIS>>
        ELSE hinted

\* What fetch_logs does on one call: it returns records or raises
Fetched(records) == [raised |-> FALSE, records |-> records, exc |-> Exc(<<>>, None, <<>>)]
FetchRaised(exc) == [raised |-> TRUE, records |-> <<>>, exc |-> exc]

\* (records, error) of try_fetch_logs; both except clauses return the same pair
try_fetch_logs(answer) ==
    IF ~answer.raised THEN [records |-> answer.records, error |-> None]
    ELSE [records |-> <<>>,
          error |-> Some(_summarize_log_exception(answer.exc, SUMMARY_MAX_LEN))]

\* Sample exceptions, each with its message attribute and its str():
\*   - an API error has the message attribute and prints "<code> <message>",
\*     the code being 403 for PermissionDenied, 404 for NotFound and None for
\*     GoogleAPICallError itself;
\*   - RetryError(message, cause) has the message attribute and prints
\*     "<message>, last exception: <cause>";
\*   - KeyError prints the repr of its one argument, and nothing without one;
\*   - the other classes print their one argument.
MessageSamples ==
    {<<"b", "o", "o", "m">>, <<>>, <<" ">>, <<" ", "\n">>, <<"a", " ", " ", "b", "\n">>,
     <<"a", "\f", "U+00A0", "b">>,
     [i \in 1..(SUMMARY_MAX_LEN + 1) |-> "a"]}

\* str() of the cause of a RetryError: an exception, or None
CauseSamples == {<<"b", "o", "o", "m">>, <<>>, <<"N", "o", "n", "e">>}

ExceptionSamples ==
    LET code(c) == IF c = PERMISSION_DENIED THEN <<"4", "0", "3">>
                   ELSE IF c = NOT_FOUND THEN <<"4", "0", "4">>
                   ELSE <<"N", "o", "n", "e">>
    IN  {Exc(c, Some(m), code(c) \o <<" ">> \o m) : c \in API_ERRORS, m \in MessageSamples}
        \cup {Exc(RETRY_ERROR, Some(m),
                  m \o <<",", " ", "l", "a", "s", "t", " ", "e", "x", "c", "e", "p",
                         "t", "i", "o", "n", ":", " ">> \o cause) :
                m \in MessageSamples, cause \in CauseSamples}
        \cup {Exc(c, None, m) :
                c \in AUTH_ERRORS \cup {OS_ERROR, FILE_NOT_FOUND_ERROR, VALUE_ERROR, TYPE_ERROR},
                m \in MessageSamples}
        \cup {Exc(KEY_ERROR, None, repr_string(m)) : m \in MessageSamples}
        \cup {Exc(KEY_ERROR, None, <<>>)}

InitFetch ==
    /\ \E a \in {Fetched(ls) : ls \in RecordLists} \cup {FetchRaised(e) : e \in ExceptionSamples} :
          input = [fn |-> "try_fetch_logs", answer |-> a]
    /\ output = NotRun
    /\ IdleHandler

CallTryFetchLogs ==
    /\ input.fn = "try_fetch_logs"
    /\ output = NotRun
    /\ output' = Some(try_fetch_logs(input.answer))
    /\ UNCHANGED input
    /\ HandlerUnchanged

NextFetch == CallTryFetchLogs

SpecFetch == InitFetch /\ [][NextFetch]_vars

FetchRan == input.fn = "try_fetch_logs" /\ output # NotRun

\* C3: try_fetch_logs returns, for every failure of the query, an empty record
\* list with a non-empty error string, and on success the records with no
\* error; so a present error implies an empty list and a failed query can be
\* told from a successful empty one.
C3_FailureIsReported ==
    FetchRan =>
        LET out == Get(output)
        IN  /\ input.answer.raised =>
                  (out.records = <<>> /\ ~IsNone(out.error) /\ Get(out.error) # <<>>)
            /\ ~input.answer.raised =>
                  (out.records = input.answer.records /\ IsNone(out.error))
            /\ ~IsNone(out.error) => out.records = <<>>

-----------------------------------------------------------------------------
(* Configuration, request and helpers of the /alert handler                *)

DEFAULT_WINDOW_MIN == 5
DEFAULT_PRE_MIN == 3
DEFAULT_MAX_LINES == 40
DEFAULT_MAX_CHARS == 20000
TAIL_WIDEN_MIN == 2
TAIL_MAX_LINES == 40
TAIL_MAX_CHARS == 6000
SECONDS_PER_MINUTE == 60

SVC_API == <<"a", "p", "i">>
SVC_WEB == <<"w", "e", "b">>
SVC_BRIDGE == <<"b", "r", "i", "d", "g", "e", "-", "s", "v", "c">>
SELF_IDENTIFIER == <<"l", "o", "g", "2", "p", "r", "-", "b", "r", "i", "d", "g", "e">>

OWNER_REPO == <<"o", "w", "n", "e", "r", "/", "r", "e", "p", "o">>
ORG_REPO == <<"o", "r", "g", "/", "r", "e", "p", "o">>
PLACEHOLDER_SLUGS == {OWNER_REPO, ORG_REPO}

SLUG_OWNER_REPO_CAPS == <<"O", "w", "n", "e", "r", "/", "R", "e", "p", "o">>
SLUG_ORG_REPO_CAPS == <<"O", "R", "G", "/", "r", "e", "p", "o">>
SLUG_APP == <<"a", "c", "m", "e", "/", "a", "p", "p">>
SLUG_WEB == <<"a", "c", "m", "e", "/", "w", "e", "b">>
SLUG_BRIDGE == <<"a", "c", "m", "e", "/", "b", "r", "i", "d", "g", "e">>
SLUG_DEFAULT == <<"a", "c", "m", "e", "/", "d", "e", "f", "a", "u", "l", "t">>
SLUG_NO_SLASH == <<"n", "o", "r", "e", "p", "o">>

\* bool(v) of an optional string
TruthyOpt(o) == ~IsNone(o) /\ Get(o) # <<>>

\* (a or b) of two optional strings
OrOpt(a, b) == IF TruthyOpt(a) THEN a ELSE b

\* key in REPO_MAP and REPO_MAP[key]; REPO_MAP is a sequence of <<service, slug>>
\* pairs with distinct services
MapHas(m, key) == \E i \in 1..Len(m) : m[i][1] = key
MapGet(m, key) == m[CHOOSE i \in 1..Len(m) : m[i][1] = key][2]

\* The first "/locations/<region>/services/<service>/" of a resource name:
\* <<region, service>>, or None when the pattern does not occur
LOCATIONS_PART == <<"/", "l", "o", "c", "a", "t", "i", "o", "n", "s", "/">>
SERVICES_PART == <<"/", "s", "e", "r", "v", "i", "c", "e", "s", "/">>

StartsAt(s, i, part) == i + Len(part) - 1 <= Len(s) /\ SubSeq(s, i, i + Len(part) - 1) = part

\* The end of the maximal run without "/" that starts at i (i - 1 when empty)
RunEnd(s, i) ==
    LET stops == {j \in i..Len(s) : s[j] = "/"}
    IN  IF stops = {} THEN Len(s) ELSE (CHOOSE j \in stops : \A k \in stops : j <= k) - 1

MatchAt(s, i) ==
    LET r0 == i + Len(LOCATIONS_PART)
        r1 == RunEnd(s, r0)
        v0 == r1 + 1 + Len(SERVICES_PART)
        v1 == RunEnd(s, v0)
    IN  /\ StartsAt(s, i, LOCATIONS_PART)
        /\ r1 >= r0
        /\ StartsAt(s, r1 + 1, SERVICES_PART)
        /\ v1 >= v0
        /\ v1 + 1 <= Len(s)

search_resource_name(rn) ==
    LET hits == {i \in 1..Len(rn) : MatchAt(rn, i)}
    IN  IF hits = {} THEN None
        ELSE LET i  == CHOOSE h \in hits : \A k \in hits : h <= k
                 r0 == i + Len(LOCATIONS_PART)
                 r1 == RunEnd(rn, r0)
                 v0 == r1 + 1 + Len(SERVICES_PART)
             IN  Some(<<SubSeq(rn, r0, r1), SubSeq(rn, v0, RunEnd(rn, v0))>>)

\* (svc_hint, region_hint) of the incident
extract_hints(inc) ==
    LET rn == IF TruthyOpt(inc.resource_name) THEN Get(inc.resource_name) ELSE <<>>
        m  == search_resource_name(rn)
    IN  IF IsNone(m) THEN [svc |-> inc.service_name, region |-> inc.location]
        ELSE [svc    |-> OrOpt(inc.service_name, Some(Get(m)[2])),
              region |-> OrOpt(inc.location, Some(Get(m)[1]))]

\* The result of check_basic_auth: True, or the 401 challenge Response
AuthTrue == [kind |-> "True", status |-> 0]
_challenge == [kind |-> "Response", status |-> 401]
\* check_basic_auth raised instead of returning
AuthRaised == [kind |-> "TypeError", status |-> 0]

\* hmac.compare_digest(a, b) of two str: TypeError when either holds a
\* character outside ASCII, else whether they are equal
compare_digest(a, b) ==
    IF ~IsAscii(a) \/ ~IsAscii(b) THEN "TypeError" ELSE IF a = b THEN "True" ELSE "False"

\* The comparisons of line 222 are outside the try: "and" evaluates the
\* password comparison only when the user comparison is true
check_basic_auth(cfg, auth) ==
    IF ~TruthyOpt(cfg.BASIC_USER) \/ ~TruthyOpt(cfg.BASIC_PASS) THEN AuthTrue
    ELSE IF auth.kind \notin {"basic", "basic_undecodable"} THEN _challenge
    ELSE IF auth.kind = "basic_undecodable" THEN _challenge
    ELSE LET user == compare_digest(auth.user, Get(cfg.BASIC_USER))
             pwd  == compare_digest(auth.pwd, Get(cfg.BASIC_PASS))
         IN  IF user = "TypeError" THEN AuthRaised
             ELSE IF user = "False" THEN _challenge
             ELSE IF pwd = "TypeError" THEN AuthRaised
             ELSE IF pwd = "False" THEN _challenge
             ELSE AuthTrue

\* bool(v) of what check_basic_auth returns: a Response object defines neither
\* __bool__ nor __len__, so it is true
TruthyAuth(v) == v.kind = "True" \/ v.kind = "Response"

\* What int() takes for a blank around the number: every character
\* str.isspace() holds for but U+001C..U+001F
IntBlank == Whitespace \ {"U+001C", "U+001D", "U+001E", "U+001F"}

\* The number the first k of the digits ds write
RECURSIVE DigitsToNat(_, _)
DigitsToNat(ds, k) ==
    IF k = 0 THEN 0 ELSE 10 * DigitsToNat(ds, k - 1) + DecimalValue(ds[k])

\* int(s) of a string: the blanks around it are dropped, a sign may lead, the
\* digits are decimal digits of any script, and single underscores may
\* separate them; None stands for the ValueError of any other string
int_of_str(s) ==
    LET solid  == {i \in 1..Len(s) : s[i] \notin IntBlank}
        t      == IF solid = {} THEN <<>>
                  ELSE SubSeq(s, CHOOSE i \in solid : \A j \in solid : i <= j,
                                 CHOOSE i \in solid : \A j \in solid : j <= i)
        signed == t # <<>> /\ t[1] \in {"+", "-"}
        body   == IF signed THEN Tail(t) ELSE t
        isDigit(c) == DecimalValue(c) >= 0
        valid  == /\ body # <<>>
                  /\ \A i \in 1..Len(body) : isDigit(body[i]) \/ body[i] = "_"
                  /\ isDigit(body[1]) /\ isDigit(body[Len(body)])
                  /\ \A i \in 1..(Len(body) - 1) : ~(body[i] = "_" /\ body[i + 1] = "_")
        ds     == SelectSeq(body, isDigit)
        n      == DigitsToNat(ds, Len(ds))
    IN  IF ~valid THEN None
        ELSE IF signed /\ t[1] = "-" THEN Some(0 - n) ELSE Some(n)

filter_container_errors(region, services) ==
    Filter("container_errors", IF region # <<>> THEN <<region>> ELSE <<>>, services,
           <<"stderr", "stdout">>)

filter_stderr_tail(regions, services, streams) ==
    Filter("stderr_tail",
           [i \in 1..Len(SelectSeq(regions, TruthyOpt)) |-> Get(SelectSeq(regions, TruthyOpt)[i])],
           services,
           SelectSeq(<<"stderr", "stdout">>, LAMBDA x : x \in Range(streams)))

\* sorted({e.get("svc") for e in records if e.get("svc")}) as a set
ObservedServices(records) ==
    {Get(records[i].svc) : i \in {j \in 1..Len(records) : TruthyOpt(records[j].svc)}}

\* next((e.get("trace") for e in req_logs if e.get("trace")), None)
first_trace(records) ==
    LET hits == {i \in 1..Len(records) : TruthyOpt(records[i].trace)}
    IN  IF hits = {} THEN None ELSE records[CHOOSE i \in hits : \A k \in hits : i <= k].trace

\* A faulty variant of choose_repo: the last service found in the map wins
RECURSIVE choose_repo_last_match(_, _, _)
choose_repo_last_match(services_seen, repo_map, default_repo) ==
    IF services_seen = <<>> THEN default_repo
    ELSE IF MapHas(repo_map, services_seen[Len(services_seen)])
         THEN MapGet(repo_map, services_seen[Len(services_seen)])
         ELSE choose_repo_last_match(SubSeq(services_seen, 1, Len(services_seen) - 1),
                                     repo_map, default_repo)

RECURSIVE choose_repo(_, _, _)
choose_repo(services_seen, repo_map, default_repo) ==
    IF services_seen = <<>> THEN default_repo
    ELSE IF MapHas(repo_map, Head(services_seen)) THEN MapGet(repo_map, Head(services_seen))
    ELSE choose_repo(Tail(services_seen), repo_map, default_repo)

\* A faulty variant of is_bad_slug: it compares with the placeholders without lower()
is_bad_slug_case_sensitive(repo_slug) ==
    \/ repo_slug = <<>>
    \/ "/" \notin Range(repo_slug)
    \/ repo_slug \in PLACEHOLDER_SLUGS

\* not repo_slug or "/" not in repo_slug or repo_slug.lower() in {...}
is_bad_slug(repo_slug) ==
    \/ repo_slug = <<>>
    \/ "/" \notin Range(repo_slug)
    \/ Lower(repo_slug) \in PLACEHOLDER_SLUGS

\* repo_slug.split("/", 1) of a slug that holds a "/"
split_slug(repo_slug) ==
    LET i == CHOOSE j \in 1..Len(repo_slug) :
                 repo_slug[j] = "/" /\ \A k \in 1..(j - 1) : repo_slug[k] # "/"
    IN  [owner |-> SubSeq(repo_slug, 1, i - 1), repo |-> SubSeq(repo_slug, i + 1, Len(repo_slug))]

-----------------------------------------------------------------------------
(* The /alert handler                                                      *)

USER == <<"u">>
PASS == <<"p">>

AuthHeaders ==
    {[kind |-> "missing", user |-> <<>>, pwd |-> <<>>],
     [kind |-> "bearer", user |-> <<>>, pwd |-> <<>>],
     [kind |-> "basic_undecodable", user |-> <<>>, pwd |-> <<>>],
     [kind |-> "basic", user |-> USER, pwd |-> <<"x">>],
     [kind |-> "basic", user |-> <<E_ACUTE>>, pwd |-> PASS],
     [kind |-> "basic", user |-> USER, pwd |-> <<"U+00FC">>],
     [kind |-> "basic", user |-> USER, pwd |-> <<"U+0000">>],
     [kind |-> "basic", user |-> USER, pwd |-> PASS]}

Incident(started_at, service_name, location, resource_name) ==
    [started_at |-> started_at, service_name |-> service_name, location |-> location,
     resource_name |-> resource_name]

NoIncident == Incident(None, None, None, None)

INCIDENT_TIME == 1700000000
CLOCK_TIME == 1700000600

RESOURCE_NAME ==
    <<"p", "/", "l", "o", "c", "a", "t", "i", "o", "n", "s", "/", "e", "u", "/",
      "s", "e", "r", "v", "i", "c", "e", "s", "/", "w", "e", "b", "/", "r">>

NUMERIC_TIME == <<"1", "7", "0", "0", "0", "0", "0", "0", "0", "0">>
PADDED_TIME == <<" ", "1", "7", " ">>
SPACED_SERVICE == <<" ", "a", "p", "i", " ">>

\* A request body: what kind of JSON it is, whether it is empty (falsy), and
\* the incident of an object
Body(kind, empty, incident) == [kind |-> kind, empty |-> empty, incident |-> incident]

\* The request bodies: none, not JSON, JSON arrays, and JSON objects
Bodies ==
    {Body("missing", TRUE, NoIncident),
     Body("malformed", TRUE, NoIncident),
     Body("array", FALSE, NoIncident),
     Body("array", TRUE, NoIncident),
     Body("object", TRUE, NoIncident),
     Body("object", FALSE, Incident(Some(JInt(INCIDENT_TIME)), None, None, None)),
     Body("object", FALSE,
          Incident(Some(JInt(INCIDENT_TIME)), Some(SVC_API), Some(<<"u", "s">>), None)),
     Body("object", FALSE,
          Incident(Some(JInt(INCIDENT_TIME)), None, None, Some(RESOURCE_NAME))),
     Body("object", FALSE,
          Incident(Some(JStr(NUMERIC_TIME)), Some(SPACED_SERVICE), None, None)),
     Body("object", FALSE, Incident(Some(JStr(PADDED_TIME)), None, None, None)),
     Body("object", FALSE, Incident(Some(JStr(<<"a", "b", "c">>)), None, None, None)),
     Body("object", FALSE, Incident(Some(JStr(<<"U+001F", "5">>)), None, None, None)),
     Body("object", FALSE, Incident(Some(JStr(<<"U+00A0", "U+0661", "U+FF15">>)), None, None, None)),
     Body("object", FALSE, Incident(Some(JDict(<< <<<<"a">>, JInt(1)>> >>)), None, None, None))}

RepoMaps ==
    {<<>>,
     << <<SVC_API, SLUG_APP>>, <<SVC_WEB, SLUG_WEB>> >>,
     << <<SVC_WEB, SLUG_OWNER_REPO_CAPS>>, <<SELF_IDENTIFIER, SLUG_BRIDGE>> >>,
     << <<SVC_API, <<>> >>, <<SVC_BRIDGE, SLUG_APP>> >>}

DefaultRepos == {OWNER_REPO, SLUG_DEFAULT, SLUG_NO_SLASH, SLUG_ORG_REPO_CAPS}

Config(creds, window_min, services, repo_map, default_repo) ==
    [BASIC_USER |-> creds[1], BASIC_PASS |-> creds[2], WINDOW_MIN |-> window_min,
     PRE_MIN |-> DEFAULT_PRE_MIN, MAX_LINES |-> DEFAULT_MAX_LINES,
     MAX_CHARS |-> DEFAULT_MAX_CHARS, REGION |-> <<>>, SERVICES |-> services,
     REPO_MAP |-> repo_map, DEFAULT_REPO |-> default_repo, K_SERVICE |-> Some(SVC_BRIDGE)]

NoCredentials == <<None, None>>
Credentials == <<Some(USER), Some(PASS)>>
WindowChoices == {1, DEFAULT_WINDOW_MIN}

\* What the log store answers to the two main queries and to a tail query
PermissionDeniedNo ==
    FetchRaised(Exc(PERMISSION_DENIED, Some(<<"n", "o">>), <<"4", "0", "3", " ", "n", "o">>))
BlankValueError == FetchRaised(Exc(VALUE_ERROR, None, <<" ">>))

ReqAnswers == {Fetched(<<>>), Fetched(<<RecFull, RecBare>>), PermissionDeniedNo}
ErrAnswers == {Fetched(<<>>), Fetched(<<RecWeb>>), BlankValueError}
TailAnswers == {Fetched(<<>>), Fetched(<<RecFull>>), PermissionDeniedNo, BlankValueError}

\* What the ticketing API answers to the pull request lookup and to the comment post
PR_NUMBER == 7
PrAnswers ==
    {[kind |-> "ok", pr |-> Some(PR_NUMBER), status |-> 200],
     [kind |-> "ok", pr |-> None, status |-> 200],
     [kind |-> "HTTPError", pr |-> None, status |-> 404],
     [kind |-> "ConnectionError", pr |-> None, status |-> 0]}
PostAnswers ==
    {[kind |-> "ok", status |-> 201], [kind |-> "HTTPError", status |-> 403],
     [kind |-> "ConnectionError", status |-> 0]}

NoResult == [records |-> <<>>, error |-> None]

LocalsInit ==
    [auth |-> AuthTrue, started_at |-> 0, t0 |-> 0, t1 |-> 0, svc_hint |-> None,
     region_hint |-> None, req |-> NoResult, trace |-> None, err |-> NoResult,
     svc_union |-> <<>>, tail |-> NoResult, stages |-> 0, stderr_block |-> <<>>,
     services_seen |-> <<>>, repo_slug |-> <<>>, pr |-> None]

HandlerStart ==
    /\ input = Idle
    /\ output = NotRun
    /\ pc = "auth"
    /\ locals = LocalsInit
    /\ calls = <<>>
    /\ response = NotRun

\* Every request, with and without credentials configured, under both window
\* widths and one repository map
Init ==
    /\ HandlerStart
    /\ \E creds \in {NoCredentials, Credentials}, w \in WindowChoices :
          /\ config = Config(creds, w, <<SVC_WEB>>,
                             << <<SVC_API, SLUG_APP>>, <<SELF_IDENTIFIER, SLUG_BRIDGE>> >>,
                             SLUG_DEFAULT)
          /\ request \in [auth : IF creds = Credentials THEN AuthHeaders
                                 ELSE {h \in AuthHeaders : h.kind = "missing"},
                          body : Bodies]

\* Every repository map and default repository, for open requests with and
\* without a hinted service
InitRepos ==
    /\ HandlerStart
    /\ config \in {Config(NoCredentials, DEFAULT_WINDOW_MIN, sv, m, d) :
                     sv \in {<<>>, <<SVC_WEB>>}, m \in RepoMaps, d \in DefaultRepos}
    /\ request \in [auth : {h \in AuthHeaders : h.kind = "missing"},
                    body : {b \in Bodies : b.kind = "object" /\ ~IsNone(b.incident.started_at)
                                           /\ Get(b.incident.started_at).t = "int"}]

\* A JSON answer of the handler, and an exception that leaves it unhandled
Answer(status, ok, note, detail) ==
    [status |-> status, exception |-> "", ok |-> ok, note |-> note, detail |-> detail]
Unhandled(exception) ==
    [status |-> 500, exception |-> exception, ok |-> FALSE, note |-> "", detail |-> <<>>]

\* One call of try_fetch_logs: the query, what fetch_logs did and what was returned
LogCall(filter, start, end, page_size, answer) ==
    [op |-> "list_entries", filter |-> filter, start |-> start, end |-> end,
     page_size |-> page_size, raised |-> answer.raised, result |-> try_fetch_logs(answer)]

PureUnchanged == UNCHANGED <<input, output, config, request>>

\* if not check_basic_auth(request): return ("", 401)
Authenticate ==
    /\ pc = "auth"
    /\ LET auth == check_basic_auth(config, request.auth)
       IN  /\ locals' = [locals EXCEPT !.auth = auth]
           /\ IF auth = AuthRaised
              THEN pc' = "done" /\ response' = Some(Unhandled("TypeError"))
              ELSE IF ~TruthyAuth(auth)
              THEN pc' = "done" /\ response' = Some(Answer(401, FALSE, "", <<>>))
              ELSE pc' = "parse" /\ UNCHANGED response
    /\ UNCHANGED calls
    /\ PureUnchanged

\* int(inc.get("started_at") or time.time()): the clock for an absent or falsy
\* value; None stands for the exception int() raises (its name in "error")
started_at_of(given) ==
    IF IsNone(given) \/ ~Truthy(Get(given)) THEN [value |-> Some(CLOCK_TIME), error |-> ""]
    ELSE IF Get(given).t = "int" THEN [value |-> Some(Get(given).n), error |-> ""]
    ELSE IF Get(given).t = "str"
    THEN [value |-> int_of_str(Get(given).s),
          error |-> IF IsNone(int_of_str(Get(given).s)) THEN "ValueError" ELSE ""]
    ELSE [value |-> None, error |-> "TypeError"]

\* payload = request.get_json(silent=True) or {}: None for a missing or
\* malformed body, and an empty array or object is falsy too; a non-empty body
\* that is no object has no get()
ParseBody ==
    /\ pc = "parse"
    /\ LET inc    == request.body.incident
           parsed == started_at_of(inc.started_at)
           hints  == extract_hints(inc)
       IN  IF request.body.kind = "array" /\ ~request.body.empty
           THEN /\ pc' = "done"
                /\ response' = Some(Unhandled("AttributeError"))
                /\ UNCHANGED locals
           ELSE IF IsNone(parsed.value)
           THEN /\ pc' = "done"
                /\ response' = Some(Unhandled(parsed.error))
                /\ UNCHANGED locals
           ELSE LET started_at == Get(parsed.value)
                IN  /\ locals' = [locals EXCEPT
                                    !.started_at = started_at,
                                    !.t1 = started_at,
                                    !.t0 = started_at - SECONDS_PER_MINUTE * config.WINDOW_MIN,
                                    !.svc_hint = hints.svc,
                                    !.region_hint = hints.region]
                    /\ pc' = "req_logs"
                    /\ UNCHANGED response
    /\ UNCHANGED calls
    /\ PureUnchanged

\* region_hint or REGION, and [svc_hint] if svc_hint else SERVICES
MainRegion == IF TruthyOpt(locals.region_hint) THEN Get(locals.region_hint) ELSE config.REGION
MainServices == IF TruthyOpt(locals.svc_hint) THEN <<Get(locals.svc_hint)>> ELSE config.SERVICES

QueryRequests ==
    /\ pc = "req_logs"
    /\ \E answer \in ReqAnswers :
          LET res == try_fetch_logs(answer)
          IN  /\ locals' = [locals EXCEPT !.req = res, !.trace = first_trace(res.records)]
              /\ calls' = Append(calls,
                                 LogCall(filter_requests_weird(MainRegion, MainServices),
                                         locals.t0, locals.t1, 100, answer))
    /\ pc' = "err_logs"
    /\ UNCHANGED response
    /\ PureUnchanged

\* The union the tail filter is scoped to: observed services, the hint, the
\* allowlist, K_SERVICE and the self identifier
svc_union_of(req_logs, err_logs) ==
    SortedSeq({x \in ObservedServices(req_logs \o err_logs)
                     \cup (IF TruthyOpt(locals.svc_hint) THEN {Get(locals.svc_hint)} ELSE {})
                     \cup Range(config.SERVICES)
                     \cup {IF TruthyOpt(config.K_SERVICE) THEN Get(config.K_SERVICE) ELSE <<>>}
                     \cup {SELF_IDENTIFIER} : x # <<>>})

QueryErrors ==
    /\ pc = "err_logs"
    /\ \E answer \in ErrAnswers :
          LET res == try_fetch_logs(answer)
          IN  /\ locals' = [locals EXCEPT
                              !.err = res,
                              !.svc_union = svc_union_of(locals.req.records, res.records)]
              /\ calls' = Append(calls,
                                 LogCall(filter_container_errors(MainRegion, MainServices),
                                         locals.t0, locals.t1, 200, answer))
    /\ pc' = "tail1"
    /\ UNCHANGED response
    /\ PureUnchanged

TailRegions ==
    <<IF TruthyOpt(locals.region_hint) THEN locals.region_hint ELSE None,
      IF config.REGION # <<>> THEN Some(config.REGION) ELSE None>>

pre_t1 == locals.started_at
pre_t0 == pre_t1 - SECONDS_PER_MINUTE * config.PRE_MIN
wider_t0 == pre_t1 - SECONDS_PER_MINUTE * (config.PRE_MIN + TAIL_WIDEN_MIN)

\* not stderr_tail and not stderr_err: an empty error string counts as no error
TailIsEmpty(res) == res.records = <<>> /\ ~TruthyOpt(res.error)

TailStage(stage, streams, start, page_size) ==
    \E answer \in TailAnswers :
        LET res == try_fetch_logs(answer)
        IN  /\ locals' = [locals EXCEPT !.tail = res, !.stages = stage]
            /\ calls' = Append(calls,
                               LogCall(filter_stderr_tail(TailRegions, locals.svc_union, streams),
                                       start, pre_t1, page_size, answer))
            /\ pc' = IF TailIsEmpty(res) /\ stage < 3
                     THEN (IF stage = 1 THEN "tail2" ELSE "tail3")
                     ELSE "repo"

TailStage1 ==
    /\ pc = "tail1"
    /\ TailStage(1, <<"stderr">>, pre_t0, 100)
    /\ UNCHANGED response
    /\ PureUnchanged

TailStage2 ==
    /\ pc = "tail2"
    /\ TailStage(2, <<"stderr", "stdout">>, pre_t0, 150)
    /\ UNCHANGED response
    /\ PureUnchanged

TailStage3 ==
    /\ pc = "tail3"
    /\ TailStage(3, <<"stderr", "stdout">>, wider_t0, 200)
    /\ UNCHANGED response
    /\ PureUnchanged

TAIL_FAILED_PREFIX ==
    <<"_", WARNING_SIGN, VARIATION_SELECTOR_16>>
    \o <<" ", "F", "a", "i", "l", "e", "d", " ", "t", "o", " ", "l", "o", "a", "d", " ">>
    \o <<"s", "t", "d", "e", "r", "r", "/", "s", "t", "d", "o", "u", "t", " ", "t", "a", "i", "l", ":", " ">>

\* The block of the tail, the services seen and the repository
ChooseRepo ==
    /\ pc = "repo"
    /\ LET block == IF ~TruthyOpt(locals.tail.error)
                    THEN format_lines(locals.tail.records,
                                      Min(TAIL_MAX_LINES, config.MAX_LINES \div 2),
                                      Min(TAIL_MAX_CHARS, config.MAX_CHARS \div 2), TRUE)
                    ELSE TAIL_FAILED_PREFIX \o Get(locals.tail.error) \o <<"_">>
           seen  == SortedSeq(ObservedServices(locals.req.records \o locals.err.records)
                              \cup (IF TruthyOpt(locals.svc_hint) THEN {Get(locals.svc_hint)}
                                    ELSE {}))
           slug  == choose_repo(seen, config.REPO_MAP, config.DEFAULT_REPO)
       IN  /\ locals' = [locals EXCEPT !.stderr_block = block, !.services_seen = seen,
                                       !.repo_slug = slug]
           /\ IF is_bad_slug(slug)
              THEN /\ pc' = "done"
                   /\ response' = Some(Answer(200, TRUE, "bad_repo_slug",
                                              [services_seen |-> seen]))
              ELSE pc' = "lookup_pr" /\ UNCHANGED response
    /\ UNCHANGED calls
    /\ PureUnchanged

\* latest_pr_number: only requests.HTTPError is caught
LookupPR ==
    /\ pc = "lookup_pr"
    /\ \E answer \in PrAnswers :
          LET slug == split_slug(locals.repo_slug)
          IN  /\ calls' = Append(calls, [op |-> "latest_pr_number", owner |-> slug.owner,
                                         repo |-> slug.repo, answer |-> answer.kind])
              /\ CASE answer.kind = "HTTPError" ->
                        /\ pc' = "done"
                        /\ response' = Some(Answer(200, TRUE, "github_latest_pr_error",
                                                   [status |-> answer.status]))
                        /\ UNCHANGED locals
                   [] answer.kind = "ConnectionError" ->
                        /\ pc' = "done"
                        /\ response' = Some(Unhandled("ConnectionError"))
                        /\ UNCHANGED locals
                   [] answer.kind = "ok" /\ IsNone(answer.pr) ->
                        /\ pc' = "done"
                        /\ response' = Some(Answer(200, TRUE, "no_prs_found",
                                                   [repo |-> locals.repo_slug]))
                        /\ UNCHANGED locals
                   [] OTHER ->
                        /\ pc' = "post"
                        /\ locals' = [locals EXCEPT !.pr = answer.pr]
                        /\ UNCHANGED response
    /\ PureUnchanged

LOGS_FAILED_PREFIX ==
    <<"_", WARNING_SIGN, VARIATION_SELECTOR_16>>
    \o <<" ", "F", "a", "i", "l", "e", "d", " ", "t", "o", " ", "l", "o", "a", "d", " ">>
    \o <<"l", "o", "g", "s", ":", " ">>

\* A block of the comment: the rendered records, or the note of a failed query
comment_block(res, max_lines, max_chars) ==
    IF ~TruthyOpt(res.error) THEN format_lines(res.records, max_lines, max_chars, FALSE)
    ELSE LOGS_FAILED_PREFIX \o Get(res.error) \o <<"_">>

\* post_pr_comment and the final answer: only requests.HTTPError is caught
PostComment ==
    /\ pc = "post"
    /\ \E answer \in PostAnswers :
          LET slug == split_slug(locals.repo_slug)
              body == [window |-> <<locals.t0, locals.t1, config.WINDOW_MIN>>,
                       services_seen |-> locals.services_seen,
                       req_block |-> comment_block(locals.req, config.MAX_LINES \div 2,
                                                   config.MAX_CHARS \div 2),
                       err_block |-> comment_block(locals.err, config.MAX_LINES,
                                                   config.MAX_CHARS)]
              log_errors == [requests  |-> IF TruthyOpt(locals.req.error) THEN locals.req.error
                                           ELSE None,
                             container |-> IF TruthyOpt(locals.err.error) THEN locals.err.error
                                           ELSE None]
          IN  /\ calls' = Append(calls, [op |-> "post_pr_comment", owner |-> slug.owner,
                                         repo |-> slug.repo, pr |-> Get(locals.pr),
                                         body |-> body, answer |-> answer.kind])
              /\ response' =
                    CASE answer.kind = "HTTPError" ->
                            Some(Answer(200, TRUE, "github_comment_error",
                                        [status |-> answer.status, repo |-> locals.repo_slug,
                                         pr |-> Get(locals.pr)]))
                      [] answer.kind = "ConnectionError" -> Some(Unhandled("ConnectionError"))
                      [] OTHER ->
                            Some(Answer(200, FALSE, "",
                                        [repo |-> locals.repo_slug, pr |-> Get(locals.pr),
                                         log_errors |-> log_errors]))
    /\ pc' = "done"
    /\ UNCHANGED locals
    /\ PureUnchanged

Next ==
    \/ Authenticate
    \/ ParseBody
    \/ QueryRequests
    \/ QueryErrors
    \/ TailStage1
    \/ TailStage2
    \/ TailStage3
    \/ ChooseRepo
    \/ LookupPR
    \/ PostComment

Spec == Init /\ [][Next]_vars

SpecRepos == InitRepos /\ [][Next]_vars

-----------------------------------------------------------------------------
(* Properties of the /alert handler                                        *)

Done == pc = "done"
Resp == Get(response)

IsTicketCall(c) == c.op \in {"latest_pr_number", "post_pr_comment"}
IsLogCall(c) == c.op = "list_entries"
IsMainQuery(c) == IsLogCall(c) /\ c.filter.kind \in {"requests", "container_errors"}
IsTailQuery(c) == IsLogCall(c) /\ c.filter.kind = "stderr_tail"

CredentialsConfigured == ~IsNone(config.BASIC_USER) /\ ~IsNone(config.BASIC_PASS)

\* The Authorization header carries the configured user and password
HeaderMatches ==
    /\ request.auth.kind = "basic"
    /\ request.auth.user = Get(config.BASIC_USER)
    /\ request.auth.pwd = Get(config.BASIC_PASS)

\* C1: with a user and a password configured, a request whose Authorization
\* header is missing, malformed or does not match is answered 401 and no log
\* query and no ticketing call is issued for it; without credentials the
\* request is processed.
C1_AuthEnforced ==
    /\ (CredentialsConfigured /\ ~HeaderMatches) =>
          /\ calls = <<>>
          /\ Done => Resp.status = 401
    /\ (~CredentialsConfigured /\ Done) => Resp.status # 401

\* The body is missing, malformed, or an object whose fields are absent or valid
BodyIsCovered ==
    \/ request.body.kind \in {"missing", "malformed"}
    \/ /\ request.body.kind = "object"
       /\ \/ IsNone(request.body.incident.started_at)
          \/ Get(request.body.incident.started_at).t = "int"

\* C2: a request that passes authentication is answered 200 with an
\* acknowledgment, whatever the body is and however the log queries, the pull
\* request lookup or the comment post fail; no failure escapes as an exception
\* or as another status.
C2_AlwaysAcknowledged ==
    (Done /\ locals.auth = AuthTrue /\ BodyIsCovered) =>
        (Resp.status = 200 /\ Resp.exception = "")

\* The repository has been chosen for this alert
RepoChosen == locals.stages >= 1 /\ pc \in {"lookup_pr", "post", "done"}

\* Placeholders in several cases, the empty value and a value without "/"
BadSlugs ==
    {OWNER_REPO, ORG_REPO, SLUG_OWNER_REPO_CAPS, SLUG_ORG_REPO_CAPS, <<>>, SLUG_NO_SLASH}

\* C4: when the repository chosen is the placeholder "owner/repo" in any case,
\* "org/repo", empty or without "/", the handler answers 200 with ok = true
\* and note = "bad_repo_slug" and issues neither the pull request lookup nor
\* the comment post.
C4_BadSlugShortCircuits ==
    (RepoChosen /\ locals.repo_slug \in BadSlugs) =>
        /\ Done
        /\ Resp.status = 200 /\ Resp.ok /\ Resp.note = "bad_repo_slug"
        /\ \A i \in 1..Len(calls) : ~IsTicketCall(calls[i])

\* The placeholder in capitals came out of the repository map and was refused
C4_Witness ==
    /\ RepoChosen
    /\ locals.repo_slug = SLUG_OWNER_REPO_CAPS
    /\ Done
    /\ Resp.note = "bad_repo_slug"
    /\ Len(calls) >= 3

\* C6: the window of the request-anomaly query and of the container-error
\* query is symmetric around the incident: from started_at - WINDOW_MIN
\* minutes to started_at + WINDOW_MIN minutes.
C6_SymmetricWindow ==
    \A i \in 1..Len(calls) :
        IsMainQuery(calls[i]) =>
            /\ calls[i].start = locals.started_at - SECONDS_PER_MINUTE * config.WINDOW_MIN
            /\ calls[i].end = locals.started_at + SECONDS_PER_MINUTE * config.WINDOW_MIN

TailCalls == SelectSeq(calls, IsTailQuery)

StageStreams(i) == IF i = 1 THEN <<"stderr">> ELSE <<"stderr", "stdout">>
StageStart(i) ==
    locals.started_at
    - SECONDS_PER_MINUTE * (IF i = 3 THEN config.PRE_MIN + TAIL_WIDEN_MIN ELSE config.PRE_MIN)

\* A stage returned records or an error
StageSettled(c) == c.result.records # <<>> \/ ~IsNone(c.result.error)

\* C9: the tail queries are issued in the order stage 1 (stderr, the
\* pre-trigger window), stage 2 (stderr and stdout, same window), stage 3
\* (stderr and stdout, the window widened by 2 minutes); a stage is issued
\* only if every earlier stage returned no records and no error; the tail kept
\* is the result of the last stage issued, which is the first stage that
\* returned records or an error, or stage 3.
C9_TailEscalation ==
    LET tc == TailCalls
    IN  /\ Len(tc) <= 3
        /\ \A i \in 1..Len(tc) :
              /\ tc[i].filter.streams = StageStreams(i)
              /\ tc[i].start = StageStart(i)
              /\ tc[i].end = locals.started_at
              /\ i > 1 => ~StageSettled(tc[i - 1])
        /\ (Len(tc) >= 1 /\ pc \notin {"tail2", "tail3"}) =>
              /\ locals.tail = tc[Len(tc)].result
              /\ Len(tc) < 3 => StageSettled(tc[Len(tc)])

HintSet == IF TruthyOpt(locals.svc_hint) THEN {Get(locals.svc_hint)} ELSE {}
ObservedSet == ObservedServices(locals.req.records \o locals.err.records)

\* The services-seen union as C10 states it
ClaimedUnion ==
    ObservedSet \cup HintSet \cup Range(config.SERVICES)
    \cup (IF TruthyOpt(config.K_SERVICE) THEN {Get(config.K_SERVICE)} ELSE {})
    \cup {SELF_IDENTIFIER}

\* The slug of the least service of the set that the map holds, else the default
SelectedFrom(services) ==
    LET mapped == {x \in services : MapHas(config.REPO_MAP, x)}
    IN  IF mapped = {} THEN config.DEFAULT_REPO
        ELSE MapGet(config.REPO_MAP,
                    CHOOSE m \in mapped : \A y \in mapped \ {m} : StrLess(m, y))

\* C10 as stated: the repository is the mapping of the first service, in
\* sorted order, of the union of observed services, hint, allowlist, own
\* service identity and self identifier that the map holds, and the default
\* only when the map holds none of them.
C10_Original == RepoChosen => locals.repo_slug = SelectedFrom(ClaimedUnion)

\* C10, amended: the repository is the mapping of the first service, in
\* sorted order, of the deduplicated set of services observed in either main
\* query result plus the hinted service that the map holds, and the default
\* when the map holds none of those; the allowlist, the own service identity
\* and the self identifier scope the tail query only.
C10_SelectsFromObservedAndHint ==
    RepoChosen => locals.repo_slug = SelectedFrom(ObservedSet \cup HintSet)

\* Two observed services are in the map and the first in sorted order won
C10_Witness ==
    /\ RepoChosen
    /\ Cardinality({x \in ObservedSet \cup HintSet : MapHas(config.REPO_MAP, x)}) >= 2
    /\ locals.repo_slug = SLUG_APP
    /\ MapGet(config.REPO_MAP, SVC_WEB) = SLUG_WEB

====
